---- MODULE Spec2Model ----
(***************************************************************************)
(* Backend of the component marketplace: the credential store (users), the *)
(* catalog store (components), the access-control gates and the request    *)
(* handlers of the REST surface.  Every handler is split at its store      *)
(* round trips (the awaits), so that concurrent requests interleave        *)
(* exactly where the code yields.                                          *)
(***************************************************************************)
EXTENDS Integers, Sequences, FiniteSets, TLC

\* ------------------------------------------------------------------ bounds
MaxUsers == 2
MaxComps == 2
MaxReqs == 2
MaxFavLen == 2

\* ------------------------------------------------------- program constants
NoId == 0
MinUsernameLen == 3
MaxUsernameLen == 30
MinPasswordLen == 6

Reqs == 1..MaxReqs
UserIds == 1..MaxUsers
CompIds == 1..MaxComps

\* ------------------------------------------------------------ input values
\* Strings are modelled as sequences of characters where their length or
\* their case matters, and as TLA+ strings elsewhere.
Absent == <<>>
Usernames == {<<"a", "l", "i">>, <<"b", "o", "b">>}
ShortUsername == <<"a", "l">>
Emails == {<<"a", "@", "x">>, <<"b", "@", "x">>}
UpperEmail == <<"A", "@", "x">>
NotAnEmail == <<"a", "x">>
Passwords == {<<"s", "e", "c", "r", "t", "1">>, <<"s", "e", "c", "r", "t", "2">>}
ShortPassword == <<"p", "w">>
Salts == {"s1", "s2"}

\* String.prototype.toLowerCase on the characters used here
LowerChar(c) ==
  IF c = "A" THEN "a" ELSE IF c = "B" THEN "b" ELSE c

ToLower(s) ==
  [i \in 1..Len(s) |-> LowerChar(s[i])]

\* express-validator isEmail, on the inputs used here
IsEmail(s) ==
  \E i \in 2..(Len(s) - 1) : s[i] = "@"

\* bcrypt.hash(s, salt): the hash embeds its salt
BcryptHash(s, salt) ==
  <<"$2a$", salt>> \o s

\* bcrypt.compare(candidate, hash): re-hash the candidate with the salt
\* embedded in the stored hash
BcryptCompare(candidate, stored) ==
  /\ Len(stored) >= 2
  /\ stored[1] = "$2a$"
  /\ BcryptHash(candidate, stored[2]) = stored

\* ----------------------------------------------------------------- tokens
NoHeader == [present |-> FALSE, id |-> NoId, valid |-> FALSE]

BearerHeader(u, ok) ==
  [present |-> TRUE, id |-> u, valid |-> ok]

\* jwt.sign({ id: user._id }, secret, { expiresIn })
JwtSign(u) ==
  [id |-> u, valid |-> TRUE]

\* jwt.verify(token, secret): throws on a bad signature or an expired token
JwtVerify(h) ==
  [ok |-> h.valid, id |-> h.id]

\* a gate that lets a request without a verified token through, anonymous
AuthMiddleware_NextOnFailure(h) ==
  IF h.present /\ JwtVerify(h).ok
    THEN [next |-> TRUE, status |-> 0, message |-> "", user |-> JwtVerify(h).id]
    ELSE [next |-> TRUE, status |-> 0, message |-> "", user |-> NoId]

\* authMiddleware: 401 unless the header carries a token that verifies
AuthMiddleware(h) ==
  IF ~h.present
    THEN [next |-> FALSE, status |-> 401, message |-> "no token", user |-> NoId]
    ELSE IF JwtVerify(h).ok
      THEN [next |-> TRUE, status |-> 0, message |-> "", user |-> JwtVerify(h).id]
      ELSE [next |-> FALSE, status |-> 401, message |-> "invalid token", user |-> NoId]

\* a gate that trusts the id of a token it did not verify
OptionalAuthMiddleware_Unverified(h) ==
  IF ~h.present
    THEN [next |-> TRUE, status |-> 0, message |-> "", user |-> NoId]
    ELSE [next |-> TRUE, status |-> 0, message |-> "", user |-> h.id]

\* optionalAuthMiddleware: always calls next, identity only for a valid token
OptionalAuthMiddleware(h) ==
  IF ~h.present
    THEN [next |-> TRUE, status |-> 0, message |-> "", user |-> NoId]
    ELSE IF JwtVerify(h).ok
      THEN [next |-> TRUE, status |-> 0, message |-> "", user |-> JwtVerify(h).id]
      ELSE [next |-> TRUE, status |-> 0, message |-> "", user |-> NoId]

\* ------------------------------------------------------------- object ids
\* A component id as it appears in a URL: a 24-digit hex string in canonical
\* (lower-case) or non-canonical (upper-case) spelling, or a malformed one.
IdParam(oid, canon) ==
  [oid |-> oid, canon |-> canon, hex |-> TRUE]

BadIdParam == [oid |-> 0, canon |-> TRUE, hex |-> FALSE]

\* new mongoose.Types.ObjectId(id): accepts either spelling of the hex digits
CastObjectId(p) ==
  p.oid

\* ObjectId.prototype.toString: always the canonical spelling
ObjectIdToString(oid) ==
  IdParam(oid, TRUE)

RECURSIVE FindIndexFrom(_, _, _)
FindIndexFrom(favorites, id, i) ==
  IF i > Len(favorites) THEN 0
  ELSE IF ObjectIdToString(favorites[i]) = id THEN i
  ELSE FindIndexFrom(favorites, id, i + 1)

\* user.favorites.findIndex(favId => favId.toString() === id); 0 stands for -1
FindIndex(favorites, id) ==
  FindIndexFrom(favorites, id, 1)

\* Array.prototype.splice(index, 1)
Splice(seq, index) ==
  [i \in 1..(Len(seq) - 1) |-> IF i < index THEN seq[i] ELSE seq[i + 1]]

\* user.favorites.some(favId => favId.toString() === id)
SomeEquals(favorites, id) ==
  \E i \in 1..Len(favorites) : ObjectIdToString(favorites[i]) = id

\* favorites.includes(component._id.toString()) over favorites.map(toString)
Includes(favorites, oid) ==
  \E i \in 1..Len(favorites) :
    ObjectIdToString(favorites[i]) = ObjectIdToString(oid)

SeqRange(seq) ==
  {seq[i] : i \in 1..Len(seq)}

\* ------------------------------------------------------------------ state
VARIABLES
  users,       \* credential store: users[i] is the document with _id = i
  components,  \* catalog store: components[i] is the document with _id = i
  reqs,        \* requests in flight, one per slot, suspended at an await
  res,         \* the most recent response sent
  plain,       \* history: plain[i] is the password user i registered with
  hist,        \* history: the successful toggles run back to back
  client       \* the editor client: session, panel, commands and views

vars == <<users, components, reqs, res, plain, hist, client>>

NoQuery == [search |-> <<>>, category |-> "", sort |-> "", favorites |-> ""]
NoInput == [username |-> Absent, email |-> Absent, password |-> Absent]
NoDoc == [read |-> <<>>, favorites |-> <<>>, fresh |-> TRUE, index |-> 0]

Idle ==
  [kind |-> "none", pc |-> "idle", user |-> NoId, header |-> NoHeader,
   id |-> BadIdParam, query |-> NoQuery, input |-> NoInput, doc |-> NoDoc,
   filtered |-> FALSE, rows |-> <<>>]

\* a response: what the client receives (status, message, rows, isFavorite,
\* token) and, for reference, the request it answers (kind, header, user,
\* favorites), whether the handler behind the gate ran (handled) and which
\* branch of the handler sent it (cause)
NoRes ==
  [kind |-> "none", status |-> 0, message |-> "", handled |-> FALSE,
   header |-> NoHeader, user |-> NoId, favorites |-> "", query |-> NoQuery,
   rows |-> <<>>,
   isFavorite |-> FALSE, token |-> NoHeader, cause |-> ""]

\* how the gate saw the Authorization header
AuthKind(h) ==
  IF ~h.present THEN "none" ELSE IF JwtVerify(h).ok THEN "ok" ELSE "bad"

\* Authorization headers: none, or a bearer token naming a user, which
\* verifies or fails verification (forged or expired)
Headers ==
  {NoHeader} \cup {BearerHeader(u, ok) : u \in UserIds, ok \in BOOLEAN}

\* the id of a user whose document was removed from the store by hand after
\* login signed a token for it; the token verifies until it expires
GoneUser == MaxUsers + 1

GoneHeader == BearerHeader(GoneUser, TRUE)

\* a client can send any header but one whose token verifies without login
\* having signed it: login signs tokens for the stored users and nobody else
Sendable(h) ==
  (h.present /\ h.valid) => (h.id \in 1..Len(users) \/ h.id = GoneUser)

IdParams ==
  {IdParam(c, canon) : c \in 1..(MaxComps + 1), canon \in BOOLEAN}
    \cup {BadIdParam}

Free(r) == reqs[r].pc = "idle"

UserExists(u) == u \in 1..Len(users)
\* a lookup that finds a component under every id
ComponentExists_Always(c) == TRUE

ComponentExists(c) == c \in 1..Len(components)

\* a response sent by a gate before the handler runs
Rejected(kind, h, g) ==
  [NoRes EXCEPT !.kind = kind, !.status = g.status, !.message = g.message,
                !.header = h]

\* a response sent by a handler
Response(kind, req, status, message) ==
  [NoRes EXCEPT !.kind = kind, !.status = status, !.message = message,
                !.handled = TRUE, !.header = req.header, !.user = req.user,
                !.favorites = req.query.favorites, !.query = req.query]

\* --------------------------------------------------------- toggleFavorite
\* a hook that hashes the password on every save
PreSave_Always(password, isModified, salt) ==
  BcryptHash(password, salt)

\* userSchema.pre("save"): hash the password only when it was modified
PreSave(password, isModified, salt) ==
  IF ~isModified THEN password ELSE BcryptHash(password, salt)

\* POST /api/components/:id/favorite up to the end of Component.findById
ToggleFavorite_FindComponent(r, h, p) ==
  /\ Free(r)
  /\ Sendable(h)
  /\ LET g == AuthMiddleware(h)
         req == [Idle EXCEPT !.kind = "toggleFavorite", !.user = g.user,
                             !.header = h, !.id = p]
     IN IF ~g.next
          THEN /\ res' = Rejected("toggleFavorite", h, g)
               /\ UNCHANGED reqs
          ELSE IF ~p.hex
            THEN /\ res' = Response("toggleFavorite", req, 500, "CastError")
                 /\ UNCHANGED reqs
          ELSE IF ~ComponentExists(CastObjectId(p))
            THEN /\ res' = Response("toggleFavorite", req, 404, "component not found")
                 /\ UNCHANGED reqs
          ELSE /\ reqs' = [reqs EXCEPT ![r] = [req EXCEPT !.pc = "tog_findUser"]]
               /\ UNCHANGED res
  /\ UNCHANGED <<users, components, plain, hist, client>>

\* User.findById, then the push or splice on the loaded document
ToggleFavorite_FindUser(r) ==
  /\ reqs[r].pc = "tog_findUser"
  /\ LET req == reqs[r]
     IN IF ~UserExists(req.user)
          THEN /\ res' = Response("toggleFavorite", req, 404, "user not found")
               /\ reqs' = [reqs EXCEPT ![r] = Idle]
          ELSE LET user == users[req.user]
                   index == FindIndex(user.favorites, req.id)
                   modified == IF index = 0
                                 THEN Append(user.favorites, CastObjectId(req.id))
                                 ELSE Splice(user.favorites, index)
               IN /\ reqs' = [reqs EXCEPT ![r] =
                       [req EXCEPT !.pc = "tog_save",
                                   !.doc = [read |-> user.favorites,
                                            favorites |-> modified,
                                            fresh |-> TRUE, index |-> index]]]
                  /\ UNCHANGED res
  /\ UNCHANGED <<users, components, plain, hist, client>>

\* a save that toggles the membership in the array stored now
SavedFavorites_Atomic(stored, doc, oid) ==
  IF FindIndex(stored, ObjectIdToString(oid)) = 0
    THEN Append(stored, oid)
    ELSE Splice(stored, FindIndex(stored, ObjectIdToString(oid)))

\* a save that sends the whole array of the loaded document, unguarded
SavedFavorites_Set(stored, doc, oid) ==
  doc.favorites

\* what user.save() sends for the favorites array: a push is sent as an
\* atomic $push, which appends to the stored array whatever it holds now
SavedFavorites(stored, doc, oid) ==
  IF doc.index = 0 THEN Append(stored, oid) ELSE doc.favorites

\* a splice is sent as a $set of the whole array guarded by the document
\* version (__v), which every save of the array increments; a push is not
\* guarded.  doc.fresh says that the version is still the one loaded.
VersionConflict(doc) ==
  doc.index # 0 /\ ~doc.fresh

\* the $inc of __v: the documents of this user loaded by other requests in
\* flight are now behind the stored version
AfterSave(r, u) ==
  [s \in Reqs |->
     IF s = r THEN Idle
     ELSE IF reqs[s].pc = "tog_save" /\ reqs[s].user = u
       THEN [reqs[s] EXCEPT !.doc.fresh = FALSE]
       ELSE reqs[s]]

\* user.save() and the response
SaveFavorites(r) ==
  /\ reqs[r].pc = "tog_save"
  /\ LET req == reqs[r]
         stored == users[req.user]
     IN IF VersionConflict(req.doc)
          THEN /\ res' = Response("toggleFavorite", req, 500, "VersionError")
               /\ reqs' = [reqs EXCEPT ![r] = Idle]
               /\ UNCHANGED users
          ELSE /\ Len(SavedFavorites(stored.favorites, req.doc, CastObjectId(req.id))) <= MaxFavLen
               /\ \E salt \in Salts :
                    users' = [users EXCEPT ![req.user] =
                      [stored EXCEPT
                         !.password = PreSave(stored.password, FALSE, salt),
                         !.favorites = SavedFavorites(stored.favorites, req.doc,
                                                      CastObjectId(req.id))]]
               /\ reqs' = AfterSave(r, req.user)
               /\ res' = [Response("toggleFavorite", req, 200, "") EXCEPT
                            !.isFavorite = (req.doc.index = 0)]
  /\ UNCHANGED <<components, plain>>

ToggleFavorite_Save(r) ==
  /\ SaveFavorites(r)
  /\ UNCHANGED <<hist, client>>

\* ---------------------------------------------------------------- catalog
CompNames == {<<"B", "t", "n">>, <<"A", "b", "c">>}
ShortName == <<"B">>
Description == <<"A", " ", "n", "i", "c", "e", " ", "b", "t", "n">>
ShortDescription == <<"b", "t", "n">>
Categories == {"buttons", "cards", "forms", "navigation", "other"}
Code == <<"<", "b", "/", ">">>
Tags == <<<<"u", "i">>>>

MinNameLen == 3
MaxNameLen == 100
MinDescriptionLen == 10
MaxDescriptionLen == 500

\* componentSchema: the validation mongoose runs in component.save()
ValidComponent(c) ==
  /\ Len(c.name) >= MinNameLen /\ Len(c.name) <= MaxNameLen
  /\ Len(c.description) >= MinDescriptionLen
  /\ Len(c.description) <= MaxDescriptionLen
  /\ c.category \in Categories
  /\ Len(c.code) > 0
  /\ c.author # NoId

\* code points of the characters used in component names
CodePoint(c) ==
  CASE c = "A" -> 65 [] c = "B" -> 66 [] c = "b" -> 98 [] c = "c" -> 99
    [] c = "n" -> 110 [] c = "t" -> 116 [] OTHER -> 0

RECURSIVE StrLess(_, _)
\* binary string comparison, as the store sorts strings
StrLess(a, b) ==
  IF Len(b) = 0 THEN FALSE
  ELSE IF Len(a) = 0 THEN TRUE
  ELSE IF CodePoint(Head(a)) # CodePoint(Head(b))
    THEN CodePoint(Head(a)) < CodePoint(Head(b))
    ELSE StrLess(Tail(a), Tail(b))

\* $text search: a term matches a word of name or tags, ignoring case
TextMatch(c, term) ==
  \/ ToLower(c.name) = ToLower(term)
  \/ \E i \in 1..Len(c.tags) : ToLower(c.tags[i]) = ToLower(term)

\* a filter that drops the category condition
Matches_NoCategory(i, q, filtered, ids) ==
  /\ q.search = <<>> \/ TextMatch(components[i], q.search)
  /\ ~filtered \/ i \in ids

\* a filter that drops the favorites condition
Matches_NoFavorites(i, q, filtered, ids) ==
  /\ q.search = <<>> \/ TextMatch(components[i], q.search)
  /\ q.category = "" \/ components[i].category = q.category

\* the filter object built by getComponents, applied to component i
Matches(i, q, filtered, ids) ==
  /\ q.search = <<>> \/ TextMatch(components[i], q.search)
  /\ q.category = "" \/ components[i].category = q.category
  /\ ~filtered \/ i \in ids

\* a sort option that treats sort=popular like sort=name
Before_PopularByName(i, j, sort) ==
  IF sort \in {"name", "popular"}
    THEN \/ StrLess(components[i].name, components[j].name)
         \/ /\ ~StrLess(components[j].name, components[i].name)
            /\ i <= j
    ELSE i >= j

\* sortOption: { name: 1 } for sort=name, { createdAt: -1 } otherwise; ids
\* are assigned in creation order
Before(i, j, sort) ==
  IF sort = "name"
    THEN \/ StrLess(components[i].name, components[j].name)
         \/ /\ ~StrLess(components[j].name, components[i].name)
            /\ i <= j
    ELSE i >= j

RECURSIVE SortBy(_, _)
SortBy(S, sort) ==
  IF S = {} THEN <<>>
  ELSE LET m == CHOOSE x \in S : \A y \in S : Before(x, y, sort)
       IN <<m>> \o SortBy(S \ {m}, sort)

\* .populate('author').lean(): the author replaced by the whole user document
Row_FullAuthor(i) ==
  [id |-> i, name |-> components[i].name,
   description |-> components[i].description,
   category |-> components[i].category, tags |-> components[i].tags,
   code |-> components[i].code,
   author |-> [id |-> components[i].author,
               username |-> users[components[i].author].username,
               email |-> users[components[i].author].email,
               password |-> users[components[i].author].password],
   annotated |-> FALSE, isFavorite |-> FALSE]

\* .populate('author', 'username').lean(): the component with its author
\* replaced by the author's id and username
Row(i) ==
  [id |-> i, name |-> components[i].name,
   description |-> components[i].description,
   category |-> components[i].category, tags |-> components[i].tags,
   code |-> components[i].code,
   author |-> [id |-> components[i].author,
               username |-> users[components[i].author].username],
   annotated |-> FALSE, isFavorite |-> FALSE]

\* Component.find(query).sort(sortOption).populate(...).lean()
Find(q, filtered, ids) ==
  LET order == SortBy({i \in 1..Len(components) : Matches(i, q, filtered, ids)},
                      q.sort)
  IN [k \in 1..Len(order) |-> Row(order[k])]

\* components.forEach(c => c.isFavorite = favorites.includes(c._id.toString()))
Annotate(rows, favorites) ==
  [k \in 1..Len(rows) |->
     [rows[k] EXCEPT !.annotated = TRUE,
                     !.isFavorite = Includes(favorites, rows[k].id)]]

\* ---------------------------------------------------------- getComponents
\* GET /api/components up to the end of its first store round trip
GetComponents_Begin(r, h, q) ==
  /\ Free(r)
  /\ Sendable(h)
  /\ LET g == OptionalAuthMiddleware(h)
         req == [Idle EXCEPT !.kind = "getComponents", !.user = g.user,
                             !.header = h, !.query = q]
     IN IF q.favorites = "true" /\ g.user # NoId
          THEN IF ~UserExists(g.user)
                 THEN /\ res' = Response("getComponents", req, 404, "user not found")
                      /\ UNCHANGED reqs
                 ELSE /\ reqs' = [reqs EXCEPT ![r] =
                           [req EXCEPT !.pc = "list_find", !.filtered = TRUE,
                                       !.doc.read = users[g.user].favorites]]
                      /\ UNCHANGED res
          ELSE IF g.user # NoId
            THEN /\ reqs' = [reqs EXCEPT ![r] =
                      [req EXCEPT !.pc = "list_annotate",
                                  !.rows = Find(q, FALSE, {})]]
                 /\ UNCHANGED res
            ELSE /\ res' = [Response("getComponents", req, 200, "") EXCEPT
                              !.rows = Find(q, FALSE, {})]
                 /\ UNCHANGED reqs
  /\ UNCHANGED <<users, components, plain, hist, client>>

\* Component.find with query._id = { $in: user.favorites }
GetComponents_Find(r) ==
  /\ reqs[r].pc = "list_find"
  /\ LET req == reqs[r]
     IN reqs' = [reqs EXCEPT ![r] =
          [req EXCEPT !.pc = "list_annotate",
                      !.rows = Find(req.query, TRUE, SeqRange(req.doc.read))]]
  /\ UNCHANGED <<users, components, res, plain, hist, client>>

\* the second User.findById, the annotation and the response
GetComponents_Annotate(r) ==
  /\ reqs[r].pc = "list_annotate"
  /\ LET req == reqs[r]
     IN IF UserExists(req.user)
          THEN res' = [Response("getComponents", req, 200, "") EXCEPT
                         !.rows = Annotate(req.rows, users[req.user].favorites)]
          ELSE res' = [Response("getComponents", req, 200, "") EXCEPT
                         !.rows = req.rows]
  /\ reqs' = [reqs EXCEPT ![r] = Idle]
  /\ UNCHANGED <<users, components, plain, hist, client>>

\* ----------------------------------------------------------- getComponent
\* GET /api/components/:id up to the end of Component.findById
GetComponent_Find(r, h, p) ==
  /\ Free(r)
  /\ Sendable(h)
  /\ LET g == OptionalAuthMiddleware(h)
         req == [Idle EXCEPT !.kind = "getComponent", !.user = g.user,
                             !.header = h, !.id = p]
     IN IF ~p.hex
          THEN /\ res' = Response("getComponent", req, 500, "CastError")
               /\ UNCHANGED reqs
          ELSE IF ~ComponentExists(CastObjectId(p))
            THEN /\ res' = Response("getComponent", req, 404, "component not found")
                 /\ UNCHANGED reqs
          ELSE IF g.user # NoId
            THEN /\ reqs' = [reqs EXCEPT ![r] =
                      [req EXCEPT !.pc = "get_annotate",
                                  !.rows = <<Row(CastObjectId(p))>>]]
                 /\ UNCHANGED res
            ELSE /\ res' = [Response("getComponent", req, 200, "") EXCEPT
                              !.rows = <<Row(CastObjectId(p))>>]
                 /\ UNCHANGED reqs
  /\ UNCHANGED <<users, components, plain, hist, client>>

\* User.findById, the annotation and the response
GetComponent_Annotate(r) ==
  /\ reqs[r].pc = "get_annotate"
  /\ LET req == reqs[r]
     IN IF UserExists(req.user)
          THEN res' = [Response("getComponent", req, 200, "") EXCEPT
                         !.rows = <<[req.rows[1] EXCEPT
                                       !.annotated = TRUE,
                                       !.isFavorite =
                                         SomeEquals(users[req.user].favorites,
                                                    req.id)]>>]
          ELSE res' = [Response("getComponent", req, 200, "") EXCEPT
                         !.rows = req.rows]
  /\ reqs' = [reqs EXCEPT ![r] = Idle]
  /\ UNCHANGED <<users, components, plain, hist, client>>

\* -------------------------------------------------------- createComponent
\* an upload that records the first user as the author
CreateComponent_FirstAuthor(h, name, description, category, code) ==
  /\ Sendable(h)
  /\ LET g == AuthMiddleware(h)
         req == [Idle EXCEPT !.kind = "createComponent", !.user = g.user,
                             !.header = h]
         component == [name |-> name, description |-> description,
                       category |-> category, tags |-> Tags, code |-> code,
                       author |-> 1]
     IN IF ~g.next
          THEN /\ res' = Rejected("createComponent", h, g)
               /\ UNCHANGED components
          ELSE IF ~ValidComponent(component)
            THEN /\ res' = Response("createComponent", req, 500, "ValidationError")
                 /\ UNCHANGED components
          ELSE /\ Len(components) < MaxComps
               /\ components' = Append(components, component)
               /\ res' = Response("createComponent", req, 201, "")
  /\ UNCHANGED <<users, reqs, plain, hist, client>>

\* POST /api/components: the route declares its checks but never inspects
\* their result, so the handler runs on any body
CreateComponent(h, name, description, category, code) ==
  /\ Sendable(h)
  /\ LET g == AuthMiddleware(h)
         req == [Idle EXCEPT !.kind = "createComponent", !.user = g.user,
                             !.header = h]
         component == [name |-> name, description |-> description,
                       category |-> category, tags |-> Tags, code |-> code,
                       author |-> g.user]
     IN IF ~g.next
          THEN /\ res' = Rejected("createComponent", h, g)
               /\ UNCHANGED components
          ELSE IF ~ValidComponent(component)
            THEN /\ res' = Response("createComponent", req, 500, "ValidationError")
                 /\ UNCHANGED components
          ELSE /\ Len(components) < MaxComps
               /\ components' = Append(components, component)
               /\ res' = Response("createComponent", req, 201, "")
  /\ UNCHANGED <<users, reqs, plain, hist, client>>

\* ------------------------------------------------------ register and login
\* validate (validation.middleware): answers 400 when a check of the route's
\* chain failed and calls next otherwise
Validate(ok) ==
  IF ok
    THEN [next |-> TRUE, status |-> 0, message |-> ""]
    ELSE [next |-> FALSE, status |-> 400, message |-> "validation"]

\* the checks of the register route: username 3..30, isEmail, password >= 6
ValidRegister(username, email, password) ==
  /\ Len(username) >= MinUsernameLen /\ Len(username) <= MaxUsernameLen
  /\ IsEmail(email)
  /\ Len(password) >= MinPasswordLen

\* the checks of the login route: isEmail, password >= 6
ValidLogin(email, password) ==
  /\ IsEmail(email)
  /\ Len(password) >= MinPasswordLen

\* the email setter of userSchema (lowercase: true), applied to documents,
\* filters and updates alike
CastEmail(email) ==
  ToLower(email)

\* a lookup by email alone
ExistingUser_EmailOnly(username, email) ==
  {u \in 1..Len(users) : users[u].email = CastEmail(email)}

\* User.findOne({ $or: [{ email }, { username }] })
ExistingUser(username, email) ==
  {u \in 1..Len(users) :
     users[u].email = CastEmail(email) \/ users[u].username = username}

\* User.findOne({ email })
UserByEmail(email) ==
  {u \in 1..Len(users) : users[u].email = CastEmail(email)}

\* a store without the unique indexes
DuplicateKey_None(u, username, email) == FALSE

\* the unique indexes on username and email: would inserting or updating
\* document u to these values collide with another document?
DuplicateKey(u, username, email) ==
  \E w \in 1..Len(users) :
    /\ w # u
    /\ users[w].username = username \/ users[w].email = email

\* POST /api/auth/register up to the end of User.findOne
Register_FindOne(r, username, email, password) ==
  /\ Free(r)
  /\ LET req == [Idle EXCEPT !.kind = "register",
                             !.input = [username |-> username, email |-> email,
                                        password |-> password]]
         v == Validate(ValidRegister(username, email, password))
     IN IF ~v.next
          THEN /\ res' = Rejected("register", NoHeader, v)
               /\ UNCHANGED reqs
          ELSE IF ExistingUser(username, email) # {}
            THEN /\ res' = Response("register", req, 400, "username or email in use")
                 /\ UNCHANGED reqs
          ELSE /\ reqs' = [reqs EXCEPT ![r] = [req EXCEPT !.pc = "reg_save"]]
               /\ UNCHANGED res
  /\ UNCHANGED <<users, components, plain, hist, client>>

\* new User({...}) and user.save(): the pre-save hook hashes the password of
\* the new document
Register_Save(r) ==
  /\ reqs[r].pc = "reg_save"
  /\ LET req == reqs[r]
         email == CastEmail(req.input.email)
     IN IF DuplicateKey(NoId, req.input.username, email)
          THEN /\ res' = Response("register", req, 500, "duplicate key")
               /\ UNCHANGED <<users, plain>>
          ELSE /\ Len(users) < MaxUsers
               /\ \E salt \in Salts :
                    users' = Append(users,
                      [username |-> req.input.username, email |-> email,
                       password |-> PreSave(req.input.password, TRUE, salt),
                       favorites |-> <<>>])
               /\ plain' = Append(plain, req.input.password)
               /\ res' = Response("register", req, 201, "registered")
  /\ reqs' = [reqs EXCEPT ![r] = Idle]
  /\ UNCHANGED <<components, hist, client>>

\* an answer that tells an unknown email from a wrong password
LoginNoUserMessage_Distinct == "no user with this email"

\* the two 401 messages of login, which the source spells alike
LoginNoUserMessage == "email or password incorrect"
LoginMismatchMessage == "email or password incorrect"

\* login up to the response: findOne by email, then comparePassword on the
\* document found
LoginResult(email, password) ==
  LET found == UserByEmail(email)
  IN IF found = {}
       THEN [status |-> 401, message |-> LoginNoUserMessage, user |-> NoId,
             cause |-> "no user"]
       ELSE LET u == CHOOSE u \in found : TRUE
            IN IF ~BcryptCompare(password, users[u].password)
                 THEN [status |-> 401, message |-> LoginMismatchMessage,
                       user |-> NoId, cause |-> "mismatch"]
                 ELSE [status |-> 200, message |-> "", user |-> u,
                       cause |-> "match"]

\* POST /api/auth/login: validate, the handler, and jwt.sign on success
Login(email, password) ==
  /\ LET req == [Idle EXCEPT !.kind = "login"]
         out == LoginResult(email, password)
         v == Validate(ValidLogin(email, password))
     IN IF ~v.next
          THEN res' = Rejected("login", NoHeader, v)
          ELSE IF out.status # 200
            THEN res' = [Response("login", req, out.status, out.message) EXCEPT
                           !.cause = out.cause]
            ELSE res' = [Response("login", req, 200, "") EXCEPT
                           !.user = out.user, !.cause = out.cause,
                           !.token = BearerHeader(JwtSign(out.user).id,
                                                  JwtSign(out.user).valid)]
  /\ UNCHANGED <<users, components, reqs, plain, hist, client>>

\* --------------------------------------------------------------- users/me
\* GET /api/users/me
GetCurrentUser(h) ==
  /\ Sendable(h)
  /\ LET g == AuthMiddleware(h)
         req == [Idle EXCEPT !.kind = "getCurrentUser", !.user = g.user,
                             !.header = h]
     IN IF ~g.next
          THEN res' = Rejected("getCurrentUser", h, g)
          ELSE IF ~UserExists(g.user)
            THEN res' = Response("getCurrentUser", req, 404, "user not found")
            ELSE res' = Response("getCurrentUser", req, 200, "")
  /\ UNCHANGED <<users, components, reqs, plain, hist, client>>

\* User.findOne({ $and: [{ _id: { $ne: userId } },
\*                       { $or: [{ username }, { email }] }] });
\* a field missing from the body matches no document
OtherUserWith(u, username, email) ==
  {w \in 1..Len(users) :
     /\ w # u
     /\ \/ username # Absent /\ users[w].username = username
        \/ email # Absent /\ users[w].email = CastEmail(email)}

\* PUT /api/users/me up to the end of User.findOne; the route declares its
\* checks but never inspects their result
UpdateUser_FindOne(r, h, username, email) ==
  /\ Free(r)
  /\ Sendable(h)
  /\ LET g == AuthMiddleware(h)
         req == [Idle EXCEPT !.kind = "updateUser", !.user = g.user,
                             !.header = h,
                             !.input = [username |-> username, email |-> email,
                                        password |-> Absent]]
     IN IF ~g.next
          THEN /\ res' = Rejected("updateUser", h, g)
               /\ UNCHANGED reqs
          ELSE IF OtherUserWith(g.user, username, email) # {}
            THEN /\ res' = Response("updateUser", req, 400, "username or email in use")
                 /\ UNCHANGED reqs
          ELSE /\ reqs' = [reqs EXCEPT ![r] = [req EXCEPT !.pc = "upd_update"]]
               /\ UNCHANGED res
  /\ UNCHANGED <<users, components, plain, hist, client>>

\* an update that replaces the document and so resets its favorites
UpdateUser_Update_Overwrite(r) ==
  /\ reqs[r].pc = "upd_update"
  /\ LET req == reqs[r]
     IN IF ~UserExists(req.user)
          THEN /\ res' = Response("updateUser", req, 404, "user not found")
               /\ UNCHANGED users
          ELSE LET username == IF req.input.username = Absent
                                 THEN users[req.user].username
                                 ELSE req.input.username
                   email == IF req.input.email = Absent
                              THEN users[req.user].email
                              ELSE CastEmail(req.input.email)
               IN IF DuplicateKey(req.user, username, email)
                    THEN /\ res' = Response("updateUser", req, 500, "duplicate key")
                         /\ UNCHANGED users
                    ELSE /\ users' = [users EXCEPT ![req.user] =
                              [@ EXCEPT !.username = username, !.email = email,
                                         !.favorites = <<>>]]
                         /\ res' = Response("updateUser", req, 200, "")
  /\ reqs' = [reqs EXCEPT ![r] = Idle]
  /\ UNCHANGED <<components, plain, hist, client>>

\* User.findByIdAndUpdate(userId, { username, email }, { new: true }): sets
\* the fields present in the body, runs no save hook and no validator
UpdateUser_Update(r) ==
  /\ reqs[r].pc = "upd_update"
  /\ LET req == reqs[r]
     IN IF ~UserExists(req.user)
          THEN /\ res' = Response("updateUser", req, 404, "user not found")
               /\ UNCHANGED users
          ELSE LET username == IF req.input.username = Absent
                                 THEN users[req.user].username
                                 ELSE req.input.username
                   email == IF req.input.email = Absent
                              THEN users[req.user].email
                              ELSE CastEmail(req.input.email)
               IN IF DuplicateKey(req.user, username, email)
                    THEN /\ res' = Response("updateUser", req, 500, "duplicate key")
                         /\ UNCHANGED users
                    ELSE /\ users' = [users EXCEPT ![req.user] =
                              [@ EXCEPT !.username = username, !.email = email]]
                         /\ res' = Response("updateUser", req, 200, "")
  /\ reqs' = [reqs EXCEPT ![r] = Idle]
  /\ UNCHANGED <<components, plain, hist, client>>

\* ------------------------------------------------------------ request inputs
\* bodies of POST /api/auth/register: two people, a clash on the username, a
\* clash on the email that differs in case, and one invalid value per check
RegisterBodies ==
  {[username |-> <<"a", "l", "i">>, email |-> <<"a", "@", "x">>,
    password |-> <<"s", "e", "c", "r", "t", "1">>],
   [username |-> <<"b", "o", "b">>, email |-> <<"b", "@", "x">>,
    password |-> <<"s", "e", "c", "r", "t", "2">>],
   [username |-> <<"a", "l", "i">>, email |-> <<"b", "@", "x">>,
    password |-> <<"s", "e", "c", "r", "t", "2">>],
   [username |-> <<"b", "o", "b">>, email |-> UpperEmail,
    password |-> <<"s", "e", "c", "r", "t", "1">>],
   [username |-> ShortUsername, email |-> <<"b", "@", "x">>,
    password |-> <<"s", "e", "c", "r", "t", "1">>],
   [username |-> <<"b", "o", "b">>, email |-> NotAnEmail,
    password |-> <<"s", "e", "c", "r", "t", "1">>],
   [username |-> <<"b", "o", "b">>, email |-> <<"b", "@", "x">>,
    password |-> ShortPassword]}

\* bodies of POST /api/auth/login
LoginBodies ==
  {[email |-> <<"a", "@", "x">>, password |-> <<"s", "e", "c", "r", "t", "1">>],
   [email |-> <<"a", "@", "x">>, password |-> <<"s", "e", "c", "r", "t", "2">>],
   [email |-> <<"b", "@", "x">>, password |-> <<"s", "e", "c", "r", "t", "2">>],
   [email |-> UpperEmail, password |-> <<"s", "e", "c", "r", "t", "1">>],
   [email |-> NotAnEmail, password |-> <<"s", "e", "c", "r", "t", "1">>],
   [email |-> <<"a", "@", "x">>, password |-> ShortPassword]}

\* bodies of PUT /api/users/me
UpdateBodies ==
  {[username |-> Absent, email |-> Absent],
   [username |-> <<"b", "o", "b">>, email |-> Absent],
   [username |-> ShortUsername, email |-> Absent],
   [username |-> Absent, email |-> <<"b", "@", "x">>]}

SecondBody ==
  [name |-> <<"A", "b", "c">>, description |-> Description,
   category |-> "forms", code |-> Code]

\* bodies of POST /api/components
CreateBodies ==
  {[name |-> <<"B", "t", "n">>, description |-> Description,
    category |-> "buttons", code |-> Code],
   SecondBody,
   [name |-> ShortName, description |-> Description,
    category |-> "buttons", code |-> Code],
   [name |-> <<"B", "t", "n">>, description |-> ShortDescription,
    category |-> "buttons", code |-> Code],
   [name |-> <<"B", "t", "n">>, description |-> Description,
    category |-> "bogus", code |-> Code],
   [name |-> <<"B", "t", "n">>, description |-> Description,
    category |-> "buttons", code |-> <<>>]}

FavoritesQueries ==
  {[NoQuery EXCEPT !.favorites = f] : f \in {"", "true"}}

\* ------------------------------------------------------------------ steps
\* the steps of each route, for the requests in the slots R and the inputs
\* given
RegisterSteps(R, B) ==
  \E r \in R :
    \/ \E b \in B : Register_FindOne(r, b.username, b.email, b.password)
    \/ Register_Save(r)

LoginSteps(B) ==
  \E b \in B : Login(b.email, b.password)

GetCurrentUserSteps(H) ==
  \E h \in H : GetCurrentUser(h)

UpdateUserSteps(R, H, B) ==
  \E r \in R :
    \/ \E h \in H, b \in B : UpdateUser_FindOne(r, h, b.username, b.email)
    \/ UpdateUser_Update(r)

CreateComponentSteps(H, B) ==
  \E h \in H, b \in B :
    CreateComponent(h, b.name, b.description, b.category, b.code)

ToggleFavoriteSteps(R, H, P) ==
  \E r \in R :
    \/ \E h \in H, p \in P : ToggleFavorite_FindComponent(r, h, p)
    \/ ToggleFavorite_FindUser(r)
    \/ ToggleFavorite_Save(r)

GetComponentsSteps(R, H, Q) ==
  \E r \in R :
    \/ \E h \in H, q \in Q : GetComponents_Begin(r, h, q)
    \/ GetComponents_Find(r)
    \/ GetComponents_Annotate(r)

GetComponentSteps(R, H, P) ==
  \E r \in R :
    \/ \E h \in H, p \in P : GetComponent_Find(r, h, p)
    \/ GetComponent_Annotate(r)

\* ----------------------------------------------------------------- client
\* AuthService._token and the secret stored under AUTH_TOKEN_KEY: a token as
\* login returned it, or undefined
NoToken == [present |-> FALSE, id |-> NoId, valid |-> FALSE]

\* a check that takes every session for an authenticated one
IsAuthenticated_Always(token) == TRUE

\* isAuthenticated(): !!this._token
IsAuthenticated(token) == token.present

\* getAuthHeader(): a bearer header when there is a token, none otherwise
GetAuthHeader(token) ==
  IF token.present THEN BearerHeader(token.id, token.valid) ELSE NoHeader

NoBody == [email |-> <<>>, password |-> <<>>]

\* a message the webview posts to the extension
NoMsg ==
  [command |-> "none", componentId |-> NoId, favorites |-> FALSE,
   body |-> NoBody]

\* the most recent click on a favorite button of the panel: the component,
\* the flag shown before the click and what became of the toggle
NoClick == [componentId |-> NoId, before |-> FALSE, outcome |-> "none"]

NoCmd == [pc |-> "idle", componentId |-> NoId, header |-> NoHeader]
NoList == [pc |-> "idle", header |-> NoHeader, favorites |-> FALSE]
NoTree == [pc |-> "idle", header |-> NoHeader, items |-> "none"]

\* the client right after activate(): the AuthService constructor has called
\* initialize(), which is suspended at secrets.get; no panel is open
ClientStart(secret) ==
  [token |-> NoToken, currentUser |-> NoId, secret |-> secret,
   startup |-> secret,
   init |-> "get", sent |-> NoHeader, rejected |-> FALSE,
   login |-> "idle", body |-> NoBody, storing |-> NoToken,
   logged |-> FALSE, session |-> NoToken,
   panel |-> "closed", msg |-> NoMsg, handled |-> "none",
   list |-> NoList, components |-> <<>>, loaded |-> FALSE, click |-> NoClick,
   cmd |-> NoCmd, tree |-> NoTree]

\* GET /users/me as the backend answers it from the store
UsersMeStatus(h) ==
  LET g == AuthMiddleware(h)
  IN IF ~g.next THEN g.status
     ELSE IF ~UserExists(g.user) THEN 404 ELSE 200

\* POST /auth/login as the backend answers it from the store
LoginStatus(body) ==
  IF ~ValidLogin(body.email, body.password) THEN 400
  ELSE LoginResult(body.email, body.password).status

\* POST /components/:id/favorite as the backend answers it from the store
ToggleStatus(h, p) ==
  LET g == AuthMiddleware(h)
  IN IF ~g.next THEN g.status
     ELSE IF ~p.hex THEN 500
     ELSE IF ~ComponentExists(CastObjectId(p)) THEN 404
     ELSE IF ~UserExists(g.user) THEN 404 ELSE 200

\* the favorites a toggle stores when it runs from findById to save with no
\* other request of the user in between
ToggleFavorite_Alone(favorites, p) ==
  LET index == FindIndex(favorites, p)
      doc == [read |-> favorites,
              favorites |-> IF index = 0
                              THEN Append(favorites, CastObjectId(p))
                              ELSE Splice(favorites, index),
              fresh |-> TRUE, index |-> index]
  IN SavedFavorites(favorites, doc, CastObjectId(p))

\* GET /components as the backend answers it from the store when no other
\* request runs between its reads
ListAnswer(h, q) ==
  LET g == OptionalAuthMiddleware(h)
      filtered == q.favorites = "true" /\ g.user # NoId
  IN IF filtered /\ ~UserExists(g.user)
       THEN [status |-> 404, rows |-> <<>>]
       ELSE LET rows == IF filtered
                          THEN Find(q, TRUE, SeqRange(users[g.user].favorites))
                          ELSE Find(q, FALSE, {})
            IN [status |-> 200,
                rows |-> IF g.user # NoId /\ UserExists(g.user)
                           THEN Annotate(rows, users[g.user].favorites)
                           ELSE rows]

\* the query string ComponentService.getComponents builds from the filters
\* the webview and the favorites view send
ListQuery(favorites) ==
  IF favorites THEN [NoQuery EXCEPT !.favorites = "true"]
               ELSE [NoQuery EXCEPT !.sort = "newest"]

\* currentComponents of the webview: the rows received, of which the script
\* uses the id and the isFavorite flag (absent on a row that was not
\* annotated, which the script takes for false)
CurrentComponents(rows) ==
  [k \in 1..Len(rows) |->
     [id |-> rows[k].id,
      isFavorite |-> rows[k].annotated /\ rows[k].isFavorite]]

\* ------------------------------------------------------------ AuthService
\* initialize(): secrets.get resolves; with a token, _fetchCurrentUser sends
\* GET /users/me with that token
Initialize_Get ==
  /\ client.init = "get"
  /\ LET token == client.secret
     IN client' =
          IF token.present
            THEN [client EXCEPT
                    !.token = token, !.init = "fetch",
                    !.sent = GetAuthHeader(token)]
            ELSE [client EXCEPT !.token = token, !.init = "done"]
  /\ UNCHANGED <<users, components, reqs, res, plain, hist>>

\* a catch block that deletes the stored token and keeps the one in memory
Initialize_Catch_KeepToken ==
  [client EXCEPT !.init = "delete", !.rejected = TRUE]

\* the catch block of initialize up to its await: the token in memory is
\* dropped and secrets.delete is called
Initialize_Catch ==
  [client EXCEPT !.token = NoToken, !.init = "delete", !.rejected = TRUE]

\* GET /users/me is answered (net: the answer arrives); anything but a 2xx
\* answer makes _fetchCurrentUser throw
Initialize_Fetch(net) ==
  /\ client.init = "fetch"
  /\ client' =
       IF net /\ UsersMeStatus(client.sent) = 200
         THEN [client EXCEPT
                 !.currentUser = AuthMiddleware(client.sent).user,
                 !.init = "done"]
         ELSE Initialize_Catch
  /\ UNCHANGED <<users, components, reqs, res, plain, hist>>

\* secrets.delete of the catch block resolves and initialize returns
Initialize_Delete ==
  /\ client.init = "delete"
  /\ client' = [client EXCEPT !.secret = NoToken, !.init = "done"]
  /\ UNCHANGED <<users, components, reqs, res, plain, hist>>

\* window.location.reload(): the script of the webview starts over
Reloaded(c) ==
  [c EXCEPT !.components = <<>>, !.loaded = FALSE, !.click = NoClick]

\* login(): POST /auth/login is answered; on success the token and the user
\* are kept in memory and secrets.store is called, otherwise login throws
\* and _handleLogin posts the failure
Login_Response(net) ==
  /\ client.login = "post"
  /\ client' =
       IF net /\ LoginStatus(client.body) = 200
         THEN LET u == LoginResult(client.body.email, client.body.password).user
                  token == [present |-> TRUE, id |-> JwtSign(u).id,
                            valid |-> JwtSign(u).valid]
              IN [client EXCEPT
                    !.token = token, !.currentUser = u, !.login = "store",
                    !.storing = token, !.logged = TRUE, !.session = NoToken]
         ELSE [client EXCEPT !.login = "idle", !.body = NoBody]
  /\ UNCHANGED <<users, components, reqs, res, plain, hist>>

\* secrets.store resolves and login returns; _handleLogin posts the success
\* and the webview reloads itself
Login_Store ==
  /\ client.login = "store"
  /\ client' = [Reloaded(client) EXCEPT
                  !.secret = client.storing, !.session = client.storing,
                  !.login = "idle", !.body = NoBody, !.storing = NoToken]
  /\ UNCHANGED <<users, components, reqs, res, plain, hist>>

\* logout(), up to its await; no handler, command or view of the client
\* calls it
Logout_Clear ==
  /\ client' = [client EXCEPT !.token = NoToken, !.currentUser = NoId,
                              !.session = NoToken]
  /\ UNCHANGED <<users, components, reqs, res, plain, hist>>

\* ------------------------------------------------------------------ panel
\* createOrShow: _update renders the page with the session as it is now (login
\* and register buttons, or the user's name and the logout button) and the
\* script of the webview starts
Panel_CreateOrShow ==
  /\ client' = [Reloaded(client) EXCEPT
                  !.panel = IF IsAuthenticated(client.token)
                              THEN "auth" ELSE "anon"]
  /\ UNCHANGED <<users, components, reqs, res, plain, hist>>

\* loadComponents / loadFavorites of the webview script
Webview_LoadComponents(favorites) ==
  /\ client.panel # "closed"
  /\ client.msg = NoMsg
  /\ client' = [client EXCEPT
                  !.msg = [NoMsg EXCEPT !.command = "getComponents",
                                        !.favorites = favorites]]
  /\ UNCHANGED <<users, components, reqs, res, plain, hist>>

\* handleLogin of the webview script
Webview_HandleLogin(body) ==
  /\ client.panel # "closed"
  /\ client.msg = NoMsg
  /\ client' = [client EXCEPT
                  !.msg = [NoMsg EXCEPT !.command = "login", !.body = body]]
  /\ UNCHANGED <<users, components, reqs, res, plain, hist>>

\* handleLogout of the webview script, behind the logout button, which the
\* page has when it was rendered for an authenticated session
Webview_HandleLogout ==
  /\ client.panel = "auth"
  /\ client.msg = NoMsg
  /\ client' = [Reloaded(client) EXCEPT
                  !.msg = [NoMsg EXCEPT !.command = "logout"]]
  /\ UNCHANGED <<users, components, reqs, res, plain, hist>>

\* the click listener of a favorite button (and handleToggleFavorite of the
\* modal): the message is posted and the flag and the label are flipped
Webview_HandleToggleFavorite(k) ==
  /\ client.panel # "closed"
  /\ client.msg = NoMsg
  /\ client.loaded
  /\ k \in 1..Len(client.components)
  /\ client.click.outcome # "pending"
  /\ client' = [client EXCEPT
                  !.msg = [NoMsg EXCEPT !.command = "toggleFavorite",
                                        !.componentId = client.components[k].id],
                  !.components[k].isFavorite = ~client.components[k].isFavorite,
                  !.click = [componentId |-> client.components[k].id,
                             before |-> client.components[k].isFavorite,
                             outcome |-> "pending"]]
  /\ UNCHANGED <<users, components, reqs, res, plain, hist>>

\* _handleWebviewMessage: the switch over the command of the message; a
\* command without a case throws, which is caught and shown as an error
HandleWebviewMessage ==
  /\ client.msg # NoMsg
  /\ LET m == client.msg
         c == [client EXCEPT !.msg = NoMsg, !.handled = m.command]
     IN CASE m.command = "getComponents" ->
               /\ client.list.pc = "idle"
               /\ client' = [c EXCEPT
                    !.list = [pc |-> "get",
                              header |-> GetAuthHeader(client.token),
                              favorites |-> m.favorites]]
          [] m.command = "login" ->
               /\ client.login = "idle"
               /\ client' = [c EXCEPT !.login = "post", !.body = m.body]
          [] m.command = "toggleFavorite" ->
               /\ client.cmd.pc = "idle"
               /\ client' = [c EXCEPT
                    !.cmd = [NoCmd EXCEPT !.pc = "start",
                                          !.componentId = m.componentId]]
          [] OTHER ->
               client' = c
  /\ UNCHANGED <<users, components, reqs, res, plain, hist>>

\* _handleGetComponents after its await: the rows are posted to the webview,
\* which renders them; on a failure the grid shows the retry button
Panel_ComponentsResult(net) ==
  /\ client.list.pc = "get"
  /\ LET answer == ListAnswer(client.list.header,
                              ListQuery(client.list.favorites))
     IN client' =
          IF net /\ answer.status = 200
            THEN [client EXCEPT
                    !.list = NoList,
                    !.components = CurrentComponents(answer.rows),
                    !.loaded = TRUE, !.click = NoClick]
            ELSE [client EXCEPT !.list = NoList, !.loaded = FALSE]
  /\ UNCHANGED <<users, components, reqs, res, plain, hist>>

\* what became of the click that sent the toggle
Outcome(c, outcome) ==
  IF c.click.outcome = "pending"
    THEN [c EXCEPT !.click.outcome = outcome]
    ELSE c

\* ---------------------------------------------------------------- commands
\* the command is run for a component, by the panel (_handleToggleFavorite)
\* or by the editor
Command_Execute(componentId) ==
  /\ client.cmd.pc = "idle"
  /\ client' = [client EXCEPT
                  !.cmd = [NoCmd EXCEPT !.pc = "start",
                                        !.componentId = componentId]]
  /\ UNCHANGED <<users, components, reqs, res, plain, hist>>

\* tailwindcss-block.toggleFavorite up to its await: without a session it
\* asks for a login and returns, with one it sends the toggle
Command_ToggleFavorite ==
  /\ client.cmd.pc = "start"
  /\ client' =
       IF ~IsAuthenticated(client.token)
         THEN [Outcome(client, "unsent") EXCEPT !.cmd = NoCmd]
         ELSE [client EXCEPT
                 !.cmd.pc = "post",
                 !.cmd.header = GetAuthHeader(client.token)]
  /\ UNCHANGED <<users, components, reqs, res, plain, hist>>

\* the toggle is answered: on success the favorites view is refreshed, on a
\* failure an error message is shown
Command_ToggleFavorite_Response(net) ==
  /\ client.cmd.pc = "post"
  /\ LET p == IdParam(client.cmd.componentId, TRUE)
         u == AuthMiddleware(client.cmd.header).user
     IN IF net /\ ToggleStatus(client.cmd.header, p) = 200
          THEN /\ Len(ToggleFavorite_Alone(users[u].favorites, p)) <= MaxFavLen
               /\ users' = [users EXCEPT ![u].favorites =
                              ToggleFavorite_Alone(users[u].favorites, p)]
               /\ client' = [Outcome(client, "ok") EXCEPT
                               !.cmd = NoCmd, !.tree.items = "none"]
          ELSE /\ client' = [Outcome(client, "failed") EXCEPT !.cmd = NoCmd]
               /\ UNCHANGED users
  /\ UNCHANGED <<components, reqs, res, plain, hist>>

\* ----------------------------------------------------------- favorites view
\* FavoriteProvider.getChildren for the root up to its await: the login
\* placeholder without a session, otherwise the favorites are requested
FavoriteProvider_GetChildren ==
  /\ client.tree.pc = "idle"
  /\ client' =
       IF ~IsAuthenticated(client.token)
         THEN [client EXCEPT !.tree = [NoTree EXCEPT !.items = "login"]]
         ELSE [client EXCEPT
                 !.tree = [pc |-> "get",
                           header |-> GetAuthHeader(client.token),
                           items |-> "none"]]
  /\ UNCHANGED <<users, components, reqs, res, plain, hist>>

\* the favorites are answered: the items, the empty placeholder or the error
\* placeholder
FavoriteProvider_Result(net) ==
  /\ client.tree.pc = "get"
  /\ LET answer == ListAnswer(client.tree.header, ListQuery(TRUE))
     IN client' = [client EXCEPT
          !.tree = [NoTree EXCEPT
             !.items = IF ~(net /\ answer.status = 200) THEN "error"
                       ELSE IF answer.rows = <<>> THEN "empty"
                       ELSE "items"]]
  /\ UNCHANGED <<users, components, reqs, res, plain, hist>>

\* ---------------------------------------------------------- specifications
Init ==
  /\ users = <<>>
  /\ components = <<>>
  /\ reqs = [r \in Reqs |-> Idle]
  /\ res = NoRes
  /\ plain = <<>>
  /\ hist = <<>>
  /\ client = ClientStart(NoToken)

\* Spec: the account routes, started from the empty store, with requests
\* interleaving at their store round trips
Next ==
  \/ RegisterSteps(Reqs, RegisterBodies)
  \/ LoginSteps(LoginBodies)
  \/ GetCurrentUserSteps(Headers)
  \/ UpdateUserSteps(Reqs, Headers, UpdateBodies)

Spec == Init /\ [][Next]_vars

\* A store reached by two registrations and two uploads: the catalog the
\* favorites and query behaviours start from
SeedUsers ==
  <<[username |-> <<"a", "l", "i">>, email |-> <<"a", "@", "x">>,
     password |-> BcryptHash(<<"s", "e", "c", "r", "t", "1">>, "s1"),
     favorites |-> <<>>],
    [username |-> <<"b", "o", "b">>, email |-> <<"b", "@", "x">>,
     password |-> BcryptHash(<<"s", "e", "c", "r", "t", "2">>, "s2"),
     favorites |-> <<>>]>>

SeedComponents ==
  <<[name |-> <<"B", "t", "n">>, description |-> Description,
     category |-> "buttons", tags |-> Tags, code |-> Code, author |-> 1],
    [name |-> <<"A", "b", "c">>, description |-> Description,
     category |-> "forms", tags |-> Tags, code |-> Code, author |-> 2]>>

SeedPlain ==
  <<<<"s", "e", "c", "r", "t", "1">>, <<"s", "e", "c", "r", "t", "2">>>>

InitFav ==
  /\ users = SeedUsers
  /\ components = SeedComponents
  /\ reqs = [r \in Reqs |-> Idle]
  /\ res = NoRes
  /\ plain = SeedPlain
  /\ hist = <<>>
  /\ client = ClientStart(NoToken)

\* the headers that name no user or the first user
FirstUserHeaders ==
  {NoHeader, BearerHeader(1, FALSE), BearerHeader(1, TRUE)}

\* both spellings of the first component's id, the second component's id, an
\* id no component has and a malformed id
FavParams ==
  {IdParam(1, TRUE), IdParam(1, FALSE), IdParam(2, TRUE),
   IdParam(MaxComps + 1, TRUE), BadIdParam}

\* SpecFav: favorite toggles of one user racing on the seeded catalog
NextFav ==
  \/ ToggleFavoriteSteps(Reqs, FirstUserHeaders, FavParams)
  \/ GetComponentsSteps(Reqs, FirstUserHeaders, FavoritesQueries)
  \/ GetComponentSteps(Reqs, FirstUserHeaders, FavParams)

SpecFav == InitFav /\ [][NextFav]_vars

\* SpecOne: every route behind the mandatory gate, with registration and
\* login, started from the empty store, one request at a time
NextOne ==
  \/ RegisterSteps({1}, RegisterBodies)
  \/ LoginSteps(LoginBodies)
  \/ GetCurrentUserSteps(Headers)
  \/ UpdateUserSteps({1}, Headers, UpdateBodies)
  \/ CreateComponentSteps(FirstUserHeaders, CreateBodies \ {SecondBody})
  \/ ToggleFavoriteSteps({1}, FirstUserHeaders, {IdParam(1, TRUE), BadIdParam})

SpecOne == Init /\ [][NextOne]_vars

\* the toggle that the save of request r completes, for the history
Toggled(r) ==
  [user |-> reqs[r].user, oid |-> CastObjectId(reqs[r].id),
   isFavorite |-> res'.isFavorite,
   before |-> CastObjectId(reqs[r].id) \in SeqRange(reqs[r].doc.read),
   after |-> CastObjectId(reqs[r].id)
               \in SeqRange(users'[reqs[r].user].favorites)]

\* hist holds the latest successful toggle and, when the one before it was by
\* the same user on the same component, that one too
Record(e) ==
  IF hist # <<>> /\ hist[Len(hist)].user = e.user /\ hist[Len(hist)].oid = e.oid
    THEN <<hist[Len(hist)], e>>
    ELSE <<e>>

\* user.save() and the response, with the history kept
ToggleFavorite_SaveRecorded(r) ==
  /\ SaveFavorites(r)
  /\ hist' = IF res'.status = 200 THEN Record(Toggled(r)) ELSE hist
  /\ UNCHANGED client

\* SpecSeq: favorite toggles on the seeded catalog, one request at a time
NextSeq ==
  \/ \E h \in FirstUserHeaders \cup {GoneHeader}, p \in FavParams :
       ToggleFavorite_FindComponent(1, h, p)
  \/ ToggleFavorite_FindUser(1)
  \/ ToggleFavorite_SaveRecorded(1)

SpecSeq == InitFav /\ [][NextSeq]_vars

\* SpecRace: favorite toggles of both users on the seeded catalog, two
\* requests in flight, with the history kept
NextRace ==
  \/ \E r \in Reqs, u \in 1..MaxUsers,
        p \in {IdParam(1, TRUE), IdParam(2, TRUE)} :
       ToggleFavorite_FindComponent(r, BearerHeader(u, TRUE), p)
  \/ \E r \in Reqs : ToggleFavorite_FindUser(r)
  \/ \E r \in Reqs : ToggleFavorite_SaveRecorded(r)

SpecRace == InitFav /\ [][NextRace]_vars

\* the tokens secret storage can hold when the client starts: none, one that
\* login signed for the first user, and one that has expired since
StoredTokens ==
  {NoToken, [present |-> TRUE, id |-> 1, valid |-> TRUE],
   [present |-> TRUE, id |-> 1, valid |-> FALSE]}

\* the login forms sent: the first user's credentials and a wrong password
ClientBodies ==
  {[email |-> <<"a", "@", "x">>, password |-> <<"s", "e", "c", "r", "t", "1">>],
   [email |-> <<"a", "@", "x">>, password |-> <<"s", "e", "c", "r", "t", "2">>]}

\* the seeded store with the first component among the first user's favorites
InitClient ==
  /\ users = [SeedUsers EXCEPT ![1].favorites = <<1>>]
  /\ components = SeedComponents
  /\ reqs = [r \in Reqs |-> Idle]
  /\ res = NoRes
  /\ plain = SeedPlain
  /\ hist = <<>>
  /\ client \in {ClientStart(secret) : secret \in StoredTokens}

\* SpecAuth: the session of the client from its activation on: the startup
\* revalidation racing with logins sent from the panel
NextAuth ==
  \/ Initialize_Get
  \/ \E net \in BOOLEAN : Initialize_Fetch(net)
  \/ Initialize_Delete
  \/ Panel_CreateOrShow
  \/ \E body \in ClientBodies : Webview_HandleLogin(body)
  \/ HandleWebviewMessage
  \/ \E net \in BOOLEAN : Login_Response(net)
  \/ Login_Store

SpecAuth == InitClient /\ [][NextAuth]_vars

\* SpecPanel: the panel of the client from its activation on, with the
\* session it starts with: the startup revalidation, the webview and its
\* messages, and the toggle command they run, against the backend with no
\* other client
NextPanel ==
  \/ Initialize_Get
  \/ \E net \in BOOLEAN : Initialize_Fetch(net)
  \/ Initialize_Delete
  \/ Panel_CreateOrShow
  \/ \E favorites \in BOOLEAN : Webview_LoadComponents(favorites)
  \/ Webview_HandleLogout
  \/ \E k \in 1..MaxComps : Webview_HandleToggleFavorite(k)
  \/ HandleWebviewMessage
  \/ \E net \in BOOLEAN : Panel_ComponentsResult(net)
  \/ Command_ToggleFavorite
  \/ \E net \in BOOLEAN : Command_ToggleFavorite_Response(net)

SpecPanel == InitClient /\ [][NextPanel]_vars

\* SpecCalls: everything in the client that asks the backend about
\* favorites, from the activation on: the toggle command run by the editor,
\* the favorites view and the lists of the panel
NextCalls ==
  \/ Initialize_Get
  \/ \E net \in BOOLEAN : Initialize_Fetch(net)
  \/ Initialize_Delete
  \/ Panel_CreateOrShow
  \/ \E favorites \in BOOLEAN : Webview_LoadComponents(favorites)
  \/ HandleWebviewMessage
  \/ \E net \in BOOLEAN : Panel_ComponentsResult(net)
  \/ \E componentId \in 1..MaxComps : Command_Execute(componentId)
  \/ Command_ToggleFavorite
  \/ \E net \in BOOLEAN : Command_ToggleFavorite_Response(net)
  \/ FavoriteProvider_GetChildren
  \/ \E net \in BOOLEAN : FavoriteProvider_Result(net)

SpecCalls == InitClient /\ [][NextCalls]_vars

\* the uploads the catalogs of SpecList are made of
Uploads ==
  {[name |-> <<"B", "t", "n">>, description |-> Description,
    category |-> "buttons", tags |-> Tags, code |-> Code, author |-> 1],
   [name |-> <<"A", "b", "c">>, description |-> Description,
    category |-> "forms", tags |-> Tags, code |-> Code, author |-> 2],
   [name |-> <<"b", "t", "n">>, description |-> Description,
    category |-> "buttons", tags |-> Tags, code |-> Code, author |-> 2]}

\* the catalogs reached by up to MaxComps of these uploads, in any order
Catalogs ==
  UNION {[1..n -> Uploads] : n \in 0..MaxComps}

InitList ==
  /\ users = SeedUsers
  /\ components \in Catalogs
  /\ reqs = [r \in Reqs |-> Idle]
  /\ res = NoRes
  /\ plain = SeedPlain
  /\ hist = <<>>
  /\ client = ClientStart(NoToken)

\* queries of GET /api/components: every sort value alone, a category with
\* and without a sort, a category no component has, a search term, and the
\* favorites filter alone and with a category
ListQueries ==
  {[NoQuery EXCEPT !.sort = o] : o \in {"", "name", "popular", "newest", "oldest"}}
    \cup {[NoQuery EXCEPT !.category = c] : c \in {"forms", "bogus"}}
    \cup {[NoQuery EXCEPT !.category = "buttons", !.sort = "name"],
          [NoQuery EXCEPT !.search = <<"A", "b", "c">>],
          [NoQuery EXCEPT !.favorites = "true"],
          [NoQuery EXCEPT !.favorites = "true", !.category = "buttons"]}

\* SpecList: list queries of the first user and of an anonymous caller on a
\* catalog of uploads, racing with the first user's favorite toggles
NextList ==
  \/ GetComponentsSteps({1}, {NoHeader, BearerHeader(1, TRUE)}, ListQueries)
  \/ ToggleFavoriteSteps({2}, {BearerHeader(1, TRUE)},
                         {IdParam(1, TRUE), IdParam(2, TRUE)})

SpecList == InitList /\ [][NextList]_vars

\* the headers of the two users, signed by login
UserHeaders == {BearerHeader(u, TRUE) : u \in 1..2}

\* SpecAll: every route, from the empty store: registrations and updates in
\* one slot, toggles, lists and lookups in the other, uploads by both users
NextAll ==
  \/ RegisterSteps({1}, {b \in RegisterBodies :
                           /\ ValidRegister(b.username, b.email, b.password)
                           /\ b.email \in Emails})
  \/ LoginSteps({b \in LoginBodies : b.email = <<"a", "@", "x">>
                                       /\ ValidLogin(b.email, b.password)})
  \/ GetCurrentUserSteps({BearerHeader(1, TRUE)})
  \/ UpdateUserSteps({1}, {BearerHeader(1, TRUE)},
                     {[username |-> Absent, email |-> UpperEmail]})
  \/ CreateComponentSteps(UserHeaders \cup {NoHeader}, {SecondBody})
  \/ ToggleFavoriteSteps({2}, UserHeaders, {IdParam(1, TRUE)})
  \/ GetComponentsSteps({2}, {BearerHeader(1, TRUE)},
                        {[NoQuery EXCEPT !.favorites = "true"]})
  \/ GetComponentSteps({2}, {BearerHeader(1, TRUE)}, {IdParam(1, TRUE)})

SpecAll == Init /\ [][NextAll]_vars

\* -------------------------------------------------------------- properties
Member(oid, favorites) == oid \in SeqRange(favorites)

Count(oid, favorites) ==
  Cardinality({i \in 1..Len(favorites) : favorites[i] = oid})

\* C1: in every reachable state every user's favorites holds each component
\* id at most once, also when toggles of one user on one component interleave
C1_NoDuplicateFavorites ==
  \A u \in 1..Len(users) : \A c \in 1..Len(components) :
    Count(c, users[u].favorites) <= 1

\* C2: two toggles of the same component by the same user, run one after the
\* other with nothing else touching the user in between, restore the
\* membership the first one found and answer opposite isFavorite values
C2_DoubleToggleRestores ==
  Len(hist) = 2 =>
    /\ hist[2].after = hist[1].before
    /\ hist[2].isFavorite # hist[1].isFavorite

\* the step in which request r of the given kind leaves pc and answers
Answers(r, pc) ==
  /\ reqs[r].pc = pc
  /\ reqs'[r].pc = "idle"

\* C3: a toggle that succeeds answers isFavorite = TRUE exactly when the
\* component was not in the favorites the handler read, and right after its
\* save the component is in the stored favorites exactly when it answered TRUE
C3_ToggleAnswersNewState ==
  [][\A r \in Reqs :
       (Answers(r, "tog_save") /\ res'.status = 200) =>
         /\ res'.isFavorite =
              ~Member(CastObjectId(reqs[r].id), reqs[r].doc.read)
         /\ res'.isFavorite =
              Member(CastObjectId(reqs[r].id), users'[reqs[r].user].favorites)]_vars

\* C4: a list request with favorites=true and no caller identity is answered
\* Unauthorized, never with a list
C4_FavoritesNeedIdentity ==
  (res.kind = "getComponents" /\ res.favorites = "true" /\ res.user = NoId) =>
    res.status = 401

\* the rows are annotated from the favorites stored when the step runs
AnnotatedFrom(rows, favorites) ==
  \A k \in 1..Len(rows) : rows[k].isFavorite = Member(rows[k].id, favorites)

\* C5: a list or lookup made with the identity of an existing user marks a
\* row isFavorite exactly when its id is in the favorites read for the
\* annotation; without identity no row is marked
C5_AnnotationMatchesFavorites ==
  [][/\ \A r \in Reqs :
          ((Answers(r, "list_annotate") \/ Answers(r, "get_annotate"))
             /\ UserExists(reqs[r].user)) =>
            AnnotatedFrom(res'.rows, users[reqs[r].user].favorites)
     /\ (res'.kind \in {"getComponents", "getComponent"} /\ res'.user = NoId) =>
          \A k \in 1..Len(res'.rows) : ~res'.rows[k].isFavorite]_vars

MandatoryKinds ==
  {"createComponent", "toggleFavorite", "getCurrentUser", "updateUser"}

OptionalKinds == {"getComponents", "getComponent"}

\* C6: behind the mandatory gate a request without a token, or with one that
\* fails verification, is answered 401 and its handler never runs: no such
\* request is ever in flight, and the step that answers it touches no store
C6_MandatoryGateRejects ==
  [][/\ \A r \in Reqs :
          reqs'[r].kind \in MandatoryKinds => AuthKind(reqs'[r].header) = "ok"
     /\ (res'.kind \in MandatoryKinds /\ AuthKind(res'.header) # "ok") =>
          /\ res'.status = 401
          /\ ~res'.handled
          /\ res' # res => UNCHANGED <<users, components, reqs>>]_vars

\* the identity the gate owes the handler for header h
Identity(h) ==
  IF h.present /\ h.valid THEN h.id ELSE NoId

\* C7: behind the optional gate every request reaches the handler, without
\* identity when the token is missing or invalid and with the token's user id
\* when it verifies; the gate never answers itself
C7_OptionalGatePasses ==
  /\ \A r \in Reqs :
       reqs[r].kind \in OptionalKinds => reqs[r].user = Identity(reqs[r].header)
  /\ res.kind \in OptionalKinds =>
       /\ res.handled
       /\ res.status # 401
       /\ res.user = Identity(res.header)

\* some stored user has this username or this email
Taken(username, email) ==
  \E u \in 1..Len(users) :
    users[u].username = username \/ users[u].email = email

\* C8: a register request whose username or email is that of a stored user
\* is answered 400 Conflict and stores nothing
C8_RegisterConflict ==
  [][\A r \in Reqs, b \in RegisterBodies :
       (/\ Register_FindOne(r, b.username, b.email, b.password)
        /\ ValidRegister(b.username, b.email, b.password)
        /\ Taken(b.username, b.email)) =>
         /\ res'.kind = "register" /\ res'.status = 400
         /\ res'.message = "username or email in use"
         /\ UNCHANGED <<users, reqs>>]_vars

\* C9: a login that fails because no user has the email and one that fails
\* because the password does not match get the same answer: 401, the same
\* message, no token
C9_LoginFailuresAlike ==
  (res.kind = "login" /\ res.cause \in {"no user", "mismatch"}) =>
    /\ res.status = 401
    /\ res.message = "email or password incorrect"
    /\ res.token = NoHeader
    /\ res.user = NoId

\* C10: whatever was saved since, login with a user's email succeeds with
\* the password given at registration and fails with any other
C10_PasswordSurvivesSaves ==
  \A u \in 1..Len(users) : \A p \in Passwords :
    (LoginResult(users[u].email, p).status = 200) = (p = plain[u])

C12_LookupNotFound ==
  [][\A r \in Reqs, h \in FirstUserHeaders, p \in IdParams :
       (/\ ~p.hex \/ CastObjectId(p) \notin 1..Len(components)
        /\ GetComponent_Find(r, h, p)) =>
         res'.kind = "getComponent" /\ res'.status = 404]_vars

\* the constraints the upload route declares: name 3..100, description
\* 10..500, category in the enumeration, code not empty
MeetsConstraints(b) ==
  /\ Len(b.name) >= MinNameLen /\ Len(b.name) <= MaxNameLen
  /\ Len(b.description) >= MinDescriptionLen
  /\ Len(b.description) <= MaxDescriptionLen
  /\ b.category \in Categories
  /\ b.code # <<>>

\* C13: an upload by an authenticated caller whose body breaks a constraint
\* is answered 400 and stores no component
C13_InvalidUploadRejected ==
  [][\A h \in FirstUserHeaders, b \in CreateBodies :
       (/\ AuthKind(h) = "ok" /\ ~MeetsConstraints(b)
        /\ CreateComponent(h, b.name, b.description, b.category, b.code)) =>
         res'.status = 400 /\ UNCHANGED components]_vars

\* the ids of the rows of a list, as a set
Ids(rows) == {rows[k].id : k \in 1..Len(rows)}

\* C14: the list is in ascending order of name for sort=name and in
\* descending order of creation for every other sort value, sort=popular
\* included
C14_ListOrder ==
  (res.kind = "getComponents" /\ res.status = 200) =>
    \A k \in 1..(Len(res.rows) - 1) :
      IF res.query.sort = "name"
        THEN ~StrLess(res.rows[k + 1].name, res.rows[k].name)
        ELSE res.rows[k].id > res.rows[k + 1].id

\* C15: with a category given the list is answered 200, every row has that
\* category, and (the favorites filter aside) every stored component of that
\* category that passes the search is a row; a category no component has
\* gives the empty list
C15_CategoryFilter ==
  (res.kind = "getComponents" /\ res.query.category # "") =>
    /\ res.status = 200
    /\ \A k \in 1..Len(res.rows) : res.rows[k].category = res.query.category
    /\ ~(res.query.favorites = "true" /\ res.user # NoId) =>
         Ids(res.rows) =
           {i \in 1..Len(components) :
              /\ components[i].category = res.query.category
              /\ res.query.search = <<>>
                   \/ TextMatch(components[i], res.query.search)}

\* C16: a list request with favorites=true and the identity of a stored user
\* reads that user's favorites, finds exactly the stored components whose id
\* is among them and that pass the other filters, and answers with those
C16_FavoritesFilter ==
  [][\A r \in Reqs :
       /\ (/\ reqs[r].pc = "idle" /\ reqs'[r].kind = "getComponents"
           /\ reqs'[r].query.favorites = "true"
           /\ reqs'[r].user \in 1..Len(users)) =>
            /\ reqs'[r].pc = "list_find"
            /\ reqs'[r].doc.read = users[reqs'[r].user].favorites
       /\ (reqs[r].pc = "list_find" /\ reqs'[r].pc # "list_find") =>
            /\ reqs'[r].pc = "list_annotate"
            /\ Ids(reqs'[r].rows) =
                 {i \in 1..Len(components) :
                    /\ Member(i, reqs[r].doc.read)
                    /\ reqs[r].query.category = ""
                         \/ components[i].category = reqs[r].query.category
                    /\ reqs[r].query.search = <<>>
                         \/ TextMatch(components[i], reqs[r].query.search)}
       /\ (Answers(r, "list_annotate") /\ reqs[r].filtered) =>
            /\ res'.kind = "getComponents" /\ res'.status = 200
            /\ Ids(res'.rows) = Ids(reqs[r].rows)
            /\ Len(res'.rows) = Cardinality(Ids(reqs[r].rows))]_vars

\* C17: the stored components change only by an upload appending one
\* component whose author is the identity of the uploading caller; every
\* other step leaves every stored component as it is
C17_AuthorIsCreator ==
  [][components' # components =>
       /\ Len(components') = Len(components) + 1
       /\ SubSeq(components', 1, Len(components)) = components
       /\ res'.kind = "createComponent" /\ res'.status = 201
       /\ Identity(res'.header) # NoId
       /\ components'[Len(components')].author = Identity(res'.header)]_vars

\* C18: the stored users only grow, a new user starts with empty favorites,
\* and the favorites of a stored user change only in the save of a toggle
\* made with that user's identity
C18_FavoritesOnlyByToggle ==
  [][/\ Len(users') >= Len(users)
     /\ \A u \in 1..Len(users') :
          IF u > Len(users)
            THEN users'[u].favorites = <<>> /\ res'.kind = "register"
            ELSE users'[u].favorites # users[u].favorites =>
                   /\ res'.kind = "toggleFavorite" /\ res'.status = 200
                   /\ Identity(res'.header) = u]_vars

\* C19: no two stored users share a username and no two share an email,
\* also when the existence checks and writes of register and updateUser
\* requests interleave
C19_UniqueUsers ==
  \A u, w \in 1..Len(users) :
    u # w =>
      /\ users[u].username # users[w].username
      /\ users[u].email # users[w].email

\* C20: every stored username has between 3 and 30 characters
C20_UsernameLength ==
  \A u \in 1..Len(users) :
    /\ Len(users[u].username) >= MinUsernameLen
    /\ Len(users[u].username) <= MaxUsernameLen

\* C21: no row of a list or single-lookup answer carries the author's
\* password hash or e-mail address: the author of a row has an id and a
\* username and nothing else
C21_AuthorIdAndUsernameOnly ==
  (res.kind \in {"getComponents", "getComponent"} /\ res.status = 200) =>
    \A k \in 1..Len(res.rows) :
      /\ DOMAIN res.rows[k].author = {"id", "username"}
      /\ res.rows[k].author.id = components[res.rows[k].id].author
      /\ res.rows[k].author.username \in Usernames \cup {ShortUsername}

\* C25: two toggles of one user on one component that both read the
\* favorites without the component, before either saved, both succeed with
\* isFavorite = TRUE, and the stored favorites then hold the component (once
\* for each toggle that raced, so twice for two): the second toggle did not
\* restore the original list.  The interleaving is reachable (C25_Witness).
C25_RacingTogglesBothAdd ==
  (Len(hist) = 2 /\ ~hist[1].before /\ ~hist[2].before) =>
    /\ hist[1].isFavorite /\ hist[2].isFavorite
    /\ hist[1].after /\ hist[2].after
    /\ Count(hist[2].oid, users[hist[2].user].favorites) >= 1

\* C26: no dangling favorite: every id in any stored user's favorites is the
\* id of a stored component
C26_NoDanglingFavorite ==
  \A u \in 1..Len(users) : \A i \in 1..Len(users[u].favorites) :
    users[u].favorites[i] \in 1..Len(components)

\* C28: a successful toggle of component C by user U changes nothing but the
\* membership of C in U's favorites: every other component is in U's
\* favorites after the save exactly when it was in the store just before the
\* save, and every other user is stored unchanged, also when another toggle
\* is in flight
C28_ToggleFrame ==
  [][\A r \in Reqs :
       (Answers(r, "tog_save") /\ res'.status = 200) =>
         /\ \A d \in 1..Len(components) :
              d # CastObjectId(reqs[r].id) =>
                (Member(d, users'[reqs[r].user].favorites)
                   = Member(d, users[reqs[r].user].favorites))
         /\ Len(users') = Len(users)
         /\ \A w \in 1..Len(users) : w # reqs[r].user => users'[w] = users[w]
         /\ users'[reqs[r].user].username = users[reqs[r].user].username
         /\ users'[reqs[r].user].email = users[reqs[r].user].email
         /\ components' = components]_vars

\* C29: every row of a favorites-only list answered to an existing user is
\* annotated isFavorite = TRUE, also when a toggle of that user runs between
\* the handler's first read of the user and its second
C29_FavoritesListAllFavorite ==
  (/\ res.kind = "getComponents" /\ res.status = 200
   /\ res.query.favorites = "true" /\ res.user \in 1..Len(users)) =>
    \A k \in 1..Len(res.rows) :
      res.rows[k].annotated /\ res.rows[k].isFavorite

\* C22: once the extension has handled the 'logout' message of the webview
\* the session is invalidated: isAuthenticated() is false, getAuthHeader()
\* carries no Authorization header and secret storage holds no token
C22_LogoutInvalidates ==
  client.handled = "logout" =>
    /\ ~IsAuthenticated(client.token)
    /\ ~GetAuthHeader(client.token).present
    /\ client.secret = NoToken

\* C23: once initialize has finished, with no login answered with a token
\* since the client started: if GET /users/me failed for the stored token,
\* the token in memory is cleared, the stored token is deleted and
\* isAuthenticated() is false; if secret storage held no token, initialize
\* sent nothing to the backend and the client is not authenticated
C23_StartupRevalidation ==
  (client.init = "done" /\ ~client.logged) =>
    /\ client.rejected =>
         /\ client.token = NoToken
         /\ client.secret = NoToken
         /\ ~IsAuthenticated(client.token)
    /\ ~client.startup.present =>
         /\ ~client.sent.present /\ ~client.rejected
         /\ client.token = NoToken
         /\ ~IsAuthenticated(client.token)

\* the favorite flag the webview holds for a component
ShownFavorite(componentId) ==
  \E k \in 1..Len(client.components) :
    /\ client.components[k].id = componentId
    /\ client.components[k].isFavorite

\* C24: when the toggle a click of the panel sent has failed at the backend,
\* or was not sent because there is no session, the favorite flag the webview
\* holds for the component is what it was before the click
C24_FailedToggleKeepsFlag ==
  client.click.outcome \in {"failed", "unsent"} =>
    ShownFavorite(client.click.componentId) = client.click.before

\* C27: once a login has resolved with a token (and until another login is
\* answered), isAuthenticated() is true and the token in memory and the
\* token in secret storage are that token, whatever initialize does
C27_LoginNotUndoneByStartup ==
  client.session.present =>
    /\ IsAuthenticated(client.token)
    /\ client.token = client.session
    /\ client.secret = client.session

\* the step in which the toggle command, the favorites view or a favorites
\* list of the panel sends its request
SendsToggle == client.cmd.pc # "post" /\ client'.cmd.pc = "post"
SendsViewList == client.tree.pc # "get" /\ client'.tree.pc = "get"
SendsPanelFavorites ==
  client.list.pc # "get" /\ client'.list.pc = "get" /\ client'.list.favorites

\* C30 as stated: while isAuthenticated() is false the client sends no
\* request about favorites
C30_NoFavoritesCallUnauthenticated ==
  [][~client.token.present =>
       ~(SendsToggle \/ SendsViewList \/ SendsPanelFavorites)]_vars

\* C30, amended: while there is no session the toggle command returns
\* without sending the toggle and getChildren of the favorites view returns
\* the login placeholder without sending the list request; both send their
\* request with the session's Authorization header when there is one
C30_GuardedFavoritesCalls ==
  [][/\ SendsToggle =>
          client.token.present /\ client'.cmd.header.present
     /\ SendsViewList =>
          client.token.present /\ client'.tree.header.present
     /\ (~client.token.present /\ client.cmd.pc = "start"
           /\ client'.cmd # client.cmd) => client'.cmd = NoCmd
     /\ (~client.token.present /\ client.tree.pc = "idle"
           /\ client'.tree # client.tree /\ client'.cmd = client.cmd) =>
          client'.tree = [NoTree EXCEPT !.items = "login"]]_vars

\* -------------------------------------------------------- reachable cases
C6_Witness ==
  /\ res.kind = "toggleFavorite" /\ AuthKind(res.header) = "bad"
  /\ res.status = 401 /\ ~res.handled
  /\ Len(users) > 0 /\ Len(components) > 0

C7_Witness ==
  /\ res.kind = "getComponents" /\ AuthKind(res.header) = "bad"
  /\ res.handled /\ res.status = 200 /\ res.user = NoId
  /\ \E r \in Reqs : reqs[r].kind = "getComponent" /\ reqs[r].user = 1

C8_Witness ==
  /\ res.kind = "register" /\ res.status = 400
  /\ res.message = "username or email in use"
  /\ Len(users) = 1

C9_Witness ==
  /\ res.kind = "login" /\ res.cause = "mismatch"
  /\ res.status = 401 /\ Len(users) > 0

C10_Witness ==
  /\ res.kind = "login" /\ res.status = 200
  /\ users[res.user].favorites # <<>>
  /\ users[res.user].username = ShortUsername

C14_Witness ==
  /\ res.kind = "getComponents" /\ res.status = 200
  /\ res.query.sort = "name" /\ Len(res.rows) = 2
  /\ res.rows[1].id < res.rows[2].id
  /\ StrLess(res.rows[1].name, res.rows[2].name)

C15_Witness ==
  /\ res.kind = "getComponents" /\ res.status = 200
  /\ res.query.category = "forms" /\ Len(res.rows) = 1
  /\ Len(components) = 2

C16_Witness ==
  /\ res.kind = "getComponents" /\ res.status = 200
  /\ res.query.favorites = "true" /\ res.user = 1
  /\ Len(res.rows) = 1 /\ Len(components) = 2
  /\ users[1].favorites = <<res.rows[1].id>>

C17_Witness ==
  /\ Len(components) = 2
  /\ components[1].author = 2 /\ components[2].author = 1
  /\ res.kind = "toggleFavorite" /\ res.status = 200

C18_Witness ==
  /\ res.kind = "updateUser" /\ res.status = 200
  /\ users[1].favorites # <<>>
  /\ Len(users) = 2 /\ users[2].favorites = <<>>

C19_Witness ==
  /\ res.kind = "register" /\ res.status = 500
  /\ res.message = "duplicate key"
  /\ Len(users) = 1

C21_Witness ==
  /\ res.kind \in {"getComponents", "getComponent"} /\ res.status = 200
  /\ Len(res.rows) > 0
  /\ users[res.rows[1].author.id].password # <<>>
  /\ users[res.rows[1].author.id].email \in Emails

C25_Witness ==
  /\ Len(hist) = 2 /\ ~hist[1].before /\ ~hist[2].before
  /\ hist[1].user = 1 /\ hist[2].user = 1
  /\ hist[1].oid = 1 /\ hist[2].oid = 1
  /\ hist[1].isFavorite /\ hist[2].isFavorite
  /\ res.kind = "toggleFavorite" /\ res.status = 200 /\ res.isFavorite
  /\ Count(1, users[1].favorites) = 2

C26_Witness ==
  /\ res.kind = "toggleFavorite" /\ res.status = 200 /\ res.isFavorite
  /\ users[res.user].favorites = <<1>>
  /\ Len(components) = 1

C28_Witness ==
  /\ res.kind = "toggleFavorite" /\ res.status = 200
  /\ hist # <<>> /\ hist[Len(hist)].user = 1
  /\ users[2].favorites # <<>>
  /\ \E s \in Reqs :
       /\ reqs[s].pc = "tog_save" /\ reqs[s].user = 1
       /\ ~reqs[s].doc.fresh
       /\ CastObjectId(reqs[s].id) # hist[Len(hist)].oid

C23_Witness ==
  /\ client.init = "done" /\ client.rejected /\ ~client.logged
  /\ client.startup.present /\ ~client.startup.valid
  /\ client.login = "post"

C30_Witness ==
  /\ ~IsAuthenticated(client.token) /\ client.init = "done"
  /\ client.tree.items = "login"
  /\ client.cmd = NoCmd /\ client.startup.present
  /\ client.list.pc = "get" /\ ~client.list.favorites

====
